---- MODULE Spec2Model ----
(***************************************************************************)
(* A model of the validated API client of playwright-api-clients-and-zod:  *)
(* the zod schemas, the transport helper fetchWithConfig, BaseApiClient,   *)
(* ChirpyApiClient, the chirpyApi fixture and the login tests.             *)
(*                                                                         *)
(* The Chirpy server and the network are the environment: every call draws *)
(* the outcome of request.fetch from a bounded set of outcomes.            *)
(***************************************************************************)
EXTENDS Integers, Sequences, FiniteSets, TLC

\* ------------------------------------------------------------------------
\* Bounds of the model
\* ------------------------------------------------------------------------

\* How many fields of a well-formed body the server may get wrong in one
\* response (main specification).
MaxBodyDefects == 1

\* How many fields of a well-formed object may be wrong in an input handed
\* to parse (parse specification).
MaxDefects == 2

\* How many entries the params of a request may hold (query specification).
MaxParams == 2

\* ------------------------------------------------------------------------
\* JSON values
\* ------------------------------------------------------------------------

\* A JSON field value: its kind (typeof, with "null" and "absent" apart) and
\* its printed content.
JStr(s) == [kind |-> "string", val |-> s]

JBool(b) == [kind |-> "boolean", val |-> IF b THEN "true" ELSE "false"]

JNum(s) == [kind |-> "number", val |-> s]

JNull == [kind |-> "null", val |-> "null"]

Absent == [kind |-> "absent", val |-> ""]

\* Every field name a schema of the repository declares, and one no schema
\* declares.
AllFields ==
    { "author_name", "body", "created_at", "expiration_datetime", "id",
      "updated_at", "user_id", "email", "is_chirpy_red", "refresh_token",
      "token", "password", "error", "someExpectedField", "extraField" }

\* The object with no field.
EmptyObj == [f \in AllFields |-> Absent]

\* A value as response.json() or a caller yields it: an object, or a JSON
\* value that is no object.
ObjBody(o) == [shape |-> "object", obj |-> o]

NullBody == [shape |-> "null", obj |-> EmptyObj]

NotJsonBody == [shape |-> "notjson", obj |-> EmptyObj]

\* ------------------------------------------------------------------------
\* Schema declarations.  A schema is the map from each declared field to the
\* kind zod expects there.
\* ------------------------------------------------------------------------

ChirpyLoginSchema == [email |-> "string", password |-> "string"]

ChirpyLoginResponseSchema ==
    [ created_at |-> "string", email |-> "string", id |-> "string",
      is_chirpy_red |-> "boolean", refresh_token |-> "string",
      token |-> "string", updated_at |-> "string" ]

ChirpResponseSchema ==
    [ author_name |-> "string", body |-> "string", created_at |-> "string",
      expiration_datetime |-> "string", id |-> "string",
      updated_at |-> "string", user_id |-> "string" ]

ChirpDataCreateSchema == [body |-> "string", expiration_datetime |-> "string"]

\* src/api/schemas/chirpy-error.schema.ts (imported as @api/schemas/...)
ChirpyErrorSchema == [error |-> "string"]

\* src/schemas/chirpy-error.schema.ts (imported as @schemas/...)
SchemasChirpyErrorSchema == [error |-> "string", someExpectedField |-> "string"]

SchemaNames ==
    { "ChirpyLoginSchema", "ChirpyLoginResponseSchema", "ChirpResponseSchema",
      "ChirpDataCreateSchema", "ChirpyErrorSchema", "SchemasChirpyErrorSchema" }

SchemaOf(name) ==
    CASE name = "ChirpyLoginSchema" -> ChirpyLoginSchema
      [] name = "ChirpyLoginResponseSchema" -> ChirpyLoginResponseSchema
      [] name = "ChirpResponseSchema" -> ChirpResponseSchema
      [] name = "ChirpDataCreateSchema" -> ChirpDataCreateSchema
      [] name = "ChirpyErrorSchema" -> ChirpyErrorSchema
      [] OTHER -> SchemasChirpyErrorSchema

\* ------------------------------------------------------------------------
\* schema.parse
\* ------------------------------------------------------------------------

\* What zod reports as received for a field value.
Received(v) == IF v.kind = "absent" THEN "undefined" ELSE v.kind

\* The declared fields of object o that are missing or of the wrong kind.
BadFields(schema, o) == { f \in DOMAIN schema : o[f].kind # schema[f] }

\* One issue of a ZodError: the path of the field ("" for the value itself),
\* the expected kind and what was received.
Issue(path, expected, received) ==
    [path |-> path, expected |-> expected, received |-> received]

\* A mutation of Issues: validation stops at the first field that is wrong.
IssuesShortCircuit(schema, v) ==
    IF v.shape # "object"
    THEN { Issue("", "object", v.shape) }
    ELSE IF BadFields(schema, v.obj) = {}
         THEN {}
         ELSE LET f == CHOOSE g \in BadFields(schema, v.obj) : TRUE
              IN  { Issue(f, schema[f], Received(v.obj[f])) }

\* The issues zod's object schema collects for a value.
Issues(schema, v) ==
    IF v.shape # "object"
    THEN { Issue("", "object", v.shape) }
    ELSE { Issue(f, schema[f], Received(v.obj[f])) : f \in BadFields(schema, v.obj) }

\* The value parse returns: the declared fields, unknown keys stripped.
Strip(schema, o) == [f \in AllFields |-> IF f \in DOMAIN schema THEN o[f] ELSE Absent]

\* schema.parse(v): the parsed value, or the ZodError (ok = FALSE) with every
\* issue found.
Parse(schema, v) ==
    LET is == Issues(schema, v)
    IN  IF is = {}
        THEN [ok |-> TRUE, value |-> Strip(schema, v.obj), issues |-> {}]
        ELSE [ok |-> FALSE, value |-> EmptyObj, issues |-> is]

\* ------------------------------------------------------------------------
\* Bounded sets of values
\* ------------------------------------------------------------------------

\* A value of the declared kind.
Sample(kind, s) == IF kind = "boolean" THEN JBool(FALSE) ELSE JStr(s)

\* A well-formed object of a schema, every string field holding s.
WellFormed(schema, s) ==
    [f \in AllFields |-> IF f \in DOMAIN schema THEN Sample(schema[f], s) ELSE Absent]

\* base with field f set to v.
With(base, f, v) == [base EXCEPT ![f] = v]

\* The objects that differ from base in at most n declared fields of schema,
\* each taking a value of vals, and may carry the undeclared key extraField.
Variants(schema, base, n, vals) ==
    LET Ds == { D \in SUBSET DOMAIN schema : Cardinality(D) <= n }
        Changed(D) == { [f \in AllFields |-> IF f \in D THEN g[f] ELSE base[f]] :
                        g \in [D -> vals] }
    IN  (UNION { Changed(D) : D \in Ds }) \cup { With(base, "extraField", JStr("x")) }

\* The objects that are base with at most n declared fields of schema set to v.
Replaced(schema, base, n, v) ==
    { [f \in AllFields |-> IF f \in D THEN v ELSE base[f]] :
      D \in { D \in SUBSET DOMAIN schema : Cardinality(D) <= n } }

\* ------------------------------------------------------------------------
\* The transport: fetchWithConfig
\* ------------------------------------------------------------------------

\* A header map (Record<string, string>): a function from its keys.
NoHeaders == [k \in {} |-> ""]

\* The request body option: undefined, or a value.
NoData == [defined |-> FALSE, value |-> NullBody]

Data(v) == [defined |-> TRUE, value |-> v]

\* JSON.stringify(data): the JSON text of the value, kept as the value it
\* denotes under a tag; undefined stays undefined.
Stringify(d) == [defined |-> d.defined, json |-> d.value]

\* A value of params: a string, a number, a boolean or undefined.
PStr(s) == [kind |-> "string", s |-> s, n |-> 0, b |-> FALSE]

PNum(n) == [kind |-> "number", s |-> "", n |-> n, b |-> FALSE]

PBool(b) == [kind |-> "boolean", s |-> "", n |-> 0, b |-> b]

PUndefined == [kind |-> "undefined", s |-> "", n |-> 0, b |-> FALSE]

\* One entry of Object.entries(params).
Entry(key, value) == [key |-> key, value |-> value]

\* The params option: undefined, or an object, kept as its entries in the
\* order Object.entries gives them.
NoParams == [defined |-> FALSE, entries |-> << >>]

Params(entries) == [defined |-> TRUE, entries |-> entries]

\* The decimal digit d as text.
Digit(d) ==
    CASE d = 0 -> "0" [] d = 1 -> "1" [] d = 2 -> "2" [] d = 3 -> "3"
      [] d = 4 -> "4" [] d = 5 -> "5" [] d = 6 -> "6" [] d = 7 -> "7"
      [] d = 8 -> "8" [] OTHER -> "9"

\* String(n) for an integer n.
RECURSIVE NumberToString(_)
NumberToString(n) ==
    IF n < 0 THEN "-" \o NumberToString(0 - n)
    ELSE IF n < 10 THEN Digit(n)
    ELSE NumberToString(n \div 10) \o Digit(n % 10)

\* String(value) for a value of params.
String(v) ==
    CASE v.kind = "string" -> v.s
      [] v.kind = "number" -> NumberToString(v.n)
      [] v.kind = "boolean" -> (IF v.b THEN "true" ELSE "false")
      [] OTHER -> "undefined"

\* A URL, kept as the parts new URL reads from its text: the origin, the path
\* and the name-value pairs of the query string, in order.
URL(origin, pathname, search) ==
    [origin |-> origin, pathname |-> pathname, search |-> search]

\* A mutation of Appended: an entry is appended when its value is truthy.
AppendedIfTruthy(search, entry) ==
    IF /\ entry.value.kind # "undefined"
       /\ entry.value # PBool(FALSE)
       /\ entry.value # PNum(0)
       /\ entry.value # PStr("")
    THEN Append(search, << entry.key, String(entry.value) >>)
    ELSE search

\* One turn of the loop over the entries:
\* if (value !== undefined) urlObj.searchParams.append(key, String(value))
Appended(search, entry) ==
    IF entry.value.kind # "undefined"
    THEN Append(search, << entry.key, String(entry.value) >>)
    ELSE search

\* The loop over Object.entries(params).
RECURSIVE AppendEach(_, _)
AppendEach(search, entries) ==
    IF entries = << >>
    THEN search
    ELSE AppendEach(Appended(search, Head(entries)), Tail(entries))

\* urlObj after `if (params) { for ... }`.
AppendParams(urlObj, params) ==
    IF params.defined
    THEN [urlObj EXCEPT !.search = AppendEach(@, params.entries)]
    ELSE urlObj

\* FetchOptions / RequestParams: method ("undefined" when the caller gives
\* none), headers (the empty map when the caller gives none), data, params.
OptionsWithParams(method, headers, data, params) ==
    [method |-> method, headers |-> headers, data |-> data, params |-> params]

\* Options without params.
Options(method, headers, data) == OptionsWithParams(method, headers, data, NoParams)

\* What request.fetch does: it resolves to a response, or rejects (network
\* error), or leaves `response` undefined.
NetResponse(status, body) == [kind |-> "response", status |-> status, body |-> body]

NetRejected == [kind |-> "rejected", status |-> 0, body |-> NotJsonBody]

NetNone == [kind |-> "none", status |-> 0, body |-> NotJsonBody]

\* The status text and the headers the server sends with a status and body.
StatusText(status) ==
    CASE status = 200 -> "OK"
      [] status = 201 -> "Created"
      [] status = 401 -> "Unauthorized"
      [] OTHER -> "Internal Server Error"

ResponseHeaders(body) ==
    [ct |-> IF body.shape = "notjson" THEN "text/html" ELSE "application/json"]

\* FetchResponse<T>
FetchResponse(status, statusText, data, headers) ==
    [status |-> status, statusText |-> statusText, data |-> data, headers |-> headers]

NoResponse == FetchResponse(0, "", NotJsonBody, NoHeaders)

\* The request handed to request.fetch.
Request(method, url, headers, data) ==
    [method |-> method, url |-> url, headers |-> headers, data |-> data]

\* The outcome of a call of the client layer: whether it raised and with what
\* error, the issues of a ZodError, the value or response returned, the steps
\* taken in order and the requests handed to request.fetch.
Outcome(raised, error, issues, value, response, events, sent) ==
    [ raised |-> raised, error |-> error, issues |-> issues, value |-> value,
      response |-> response, events |-> events, sent |-> sent ]

Raise(error, issues, events, sent) ==
    Outcome(TRUE, error, issues, EmptyObj, NoResponse, events, sent)

\* A mutation of FetchWithConfig: when request.fetch gives no response the
\* request is issued a second time before the error is raised.
FetchWithConfigRetry(url, options, net) ==
    LET method == IF options.method = "undefined" THEN "GET" ELSE options.method
        requestData == Stringify(options.data)
        urlObj == AppendParams(url, options.params)
        sent == << Request(method, urlObj, options.headers, requestData) >>
    IN  IF net.kind = "rejected"
        THEN Raise("fetch rejected", {}, << "fetch", "fetch" >>, sent \o sent)
        ELSE IF net.kind = "none"
        THEN Raise("No response received", {}, << "fetch", "fetch" >>, sent \o sent)
        ELSE IF net.body.shape = "notjson"
        THEN Raise("invalid json", {}, << "fetch", "json" >>, sent)
        ELSE Outcome(FALSE, "", {}, EmptyObj,
                     FetchResponse(net.status, StatusText(net.status), net.body,
                                   ResponseHeaders(net.body)),
                     << "fetch", "json" >>, sent)

\* fetchWithConfig(request, url, options) when request.fetch does `net`.
FetchWithConfig(url, options, net) ==
    LET method == IF options.method = "undefined" THEN "GET" ELSE options.method
        requestData == Stringify(options.data)
        urlObj == AppendParams(url, options.params)
        sent == << Request(method, urlObj, options.headers, requestData) >>
    IN  IF net.kind = "rejected"
        THEN Raise("fetch rejected", {}, << "fetch" >>, sent)
        ELSE IF net.kind = "none"
        THEN Raise("No response received", {}, << "fetch" >>, sent)
        ELSE IF net.body.shape = "notjson"
        THEN Raise("invalid json", {}, << "fetch", "json" >>, sent)
        ELSE Outcome(FALSE, "", {}, EmptyObj,
                     FetchResponse(net.status, StatusText(net.status), net.body,
                                   ResponseHeaders(net.body)),
                     << "fetch", "json" >>, sent)

\* ------------------------------------------------------------------------
\* BaseApiClient
\* ------------------------------------------------------------------------

\* playwright.config's BASE_URL, an origin.
BASE_URL == "https://chirpy"

\* new URL(endpoint, baseURL).toString() for an absolute path without a
\* query, baseURL being an origin.
ResolveURL(endpoint, baseURL) == URL(baseURL, endpoint, << >>)

\* A mutation of Spread: the first map wins on a key of both.
SpreadFirstWins(a, b) ==
    [k \in (DOMAIN a) \cup (DOMAIN b) |-> IF k \in DOMAIN a THEN a[k] ELSE b[k]]

\* { ...a, ...b }
Spread(a, b) ==
    [k \in (DOMAIN a) \cup (DOMAIN b) |-> IF k \in DOMAIN b THEN b[k] ELSE a[k]]

\* makeRequest(endpoint, options) of a client whose config.headers is
\* configHeaders.
MakeRequest(configHeaders, endpoint, options, net) ==
    FetchWithConfig(ResolveURL(endpoint, BASE_URL),
                    OptionsWithParams(options.method,
                                      Spread(configHeaders, options.headers),
                                      options.data, options.params),
                    net)

\* ------------------------------------------------------------------------
\* ChirpyApiClient
\* ------------------------------------------------------------------------

loginPath == "/api/login"

chirpsPath == "/api/chirps"

\* The status each validated operation expects.
LoginExpectedStatus == 200

CreateChirpExpectedStatus == 201

GetChirpExpectedStatus == 200

\* A mutation of LoginResult: the body is parsed before the status is
\* asserted.
LoginResultParseFirst(configHeaders, login, net) ==
    LET response == MakeRequest(configHeaders, loginPath,
                                Options("POST", NoHeaders, Data(ObjBody(login))), net)
        data == Parse(ChirpyLoginResponseSchema, response.response.data)
    IN  IF response.raised
        THEN response
        ELSE IF ~data.ok
        THEN Raise("schema mismatch", data.issues,
                   response.events \o << "parse" >>, response.sent)
        ELSE IF response.response.status # LoginExpectedStatus
        THEN Raise("status mismatch", {},
                   response.events \o << "parse", "expect status" >>, response.sent)
        ELSE Outcome(FALSE, "", {}, data.value, NoResponse,
                     response.events \o << "parse", "expect status" >>, response.sent)

\* login(login)
LoginResult(configHeaders, login, net) ==
    LET response == MakeRequest(configHeaders, loginPath,
                                Options("POST", NoHeaders, Data(ObjBody(login))), net)
        data == Parse(ChirpyLoginResponseSchema, response.response.data)
    IN  IF response.raised
        THEN response
        ELSE IF response.response.status # LoginExpectedStatus
        THEN Raise("status mismatch", {},
                   response.events \o << "expect status" >>, response.sent)
        ELSE IF ~data.ok
        THEN Raise("schema mismatch", data.issues,
                   response.events \o << "expect status", "parse" >>, response.sent)
        ELSE Outcome(FALSE, "", {}, data.value, NoResponse,
                     response.events \o << "expect status", "parse" >>, response.sent)

\* A mutation of CreateChirpResult: the body is returned as received when it
\* does not parse.
CreateChirpResultFallback(configHeaders, chirp, net) ==
    LET response == MakeRequest(configHeaders, chirpsPath,
                                Options("POST", NoHeaders, Data(ObjBody(chirp))), net)
        data == Parse(ChirpResponseSchema, response.response.data)
    IN  IF response.raised
        THEN response
        ELSE IF response.response.status # CreateChirpExpectedStatus
        THEN Raise("status mismatch", {},
                   response.events \o << "expect status" >>, response.sent)
        ELSE Outcome(FALSE, "", {},
                     IF data.ok THEN data.value ELSE response.response.data.obj,
                     NoResponse,
                     response.events \o << "expect status", "parse" >>, response.sent)

\* createChirp(chirp)
CreateChirpResult(configHeaders, chirp, net) ==
    LET response == MakeRequest(configHeaders, chirpsPath,
                                Options("POST", NoHeaders, Data(ObjBody(chirp))), net)
        data == Parse(ChirpResponseSchema, response.response.data)
    IN  IF response.raised
        THEN response
        ELSE IF response.response.status # CreateChirpExpectedStatus
        THEN Raise("status mismatch", {},
                   response.events \o << "expect status" >>, response.sent)
        ELSE IF ~data.ok
        THEN Raise("schema mismatch", data.issues,
                   response.events \o << "expect status", "parse" >>, response.sent)
        ELSE Outcome(FALSE, "", {}, data.value, NoResponse,
                     response.events \o << "expect status", "parse" >>, response.sent)

\* A mutation of GetChirpResult: when the status is not the expected one the
\* request is issued once more before the failure is raised.
GetChirpResultRetry(configHeaders, chirpId, net) ==
    LET response == MakeRequest(configHeaders, chirpsPath \o "/" \o chirpId,
                                Options("GET", NoHeaders, NoData), net)
        data == Parse(ChirpResponseSchema, response.response.data)
    IN  IF response.raised
        THEN response
        ELSE IF response.response.status # GetChirpExpectedStatus
        THEN Raise("status mismatch", {},
                   response.events \o << "expect status", "fetch", "json", "expect status" >>,
                   response.sent \o response.sent)
        ELSE IF ~data.ok
        THEN Raise("schema mismatch", data.issues,
                   response.events \o << "expect status", "parse" >>, response.sent)
        ELSE Outcome(FALSE, "", {}, data.value, NoResponse,
                     response.events \o << "expect status", "parse" >>, response.sent)

\* getChirp(chirpId)
GetChirpResult(configHeaders, chirpId, net) ==
    LET response == MakeRequest(configHeaders, chirpsPath \o "/" \o chirpId,
                                Options("GET", NoHeaders, NoData), net)
        data == Parse(ChirpResponseSchema, response.response.data)
    IN  IF response.raised
        THEN response
        ELSE IF response.response.status # GetChirpExpectedStatus
        THEN Raise("status mismatch", {},
                   response.events \o << "expect status" >>, response.sent)
        ELSE IF ~data.ok
        THEN Raise("schema mismatch", data.issues,
                   response.events \o << "expect status", "parse" >>, response.sent)
        ELSE Outcome(FALSE, "", {}, data.value, NoResponse,
                     response.events \o << "expect status", "parse" >>, response.sent)

\* A mutation of RawRequestResult: a status of 400 or more is raised.
RawRequestResultChecked(configHeaders, path, options, net) ==
    LET response == MakeRequest(configHeaders, path, options, net)
    IN  IF response.raised
        THEN response
        ELSE IF response.response.status >= 400
        THEN Raise("status mismatch", {},
                   response.events \o << "expect status" >>, response.sent)
        ELSE response

\* rawRequest(path, options)
RawRequestResult(configHeaders, path, options, net) ==
    MakeRequest(configHeaders, path, options, net)

\* `Bearer ${token}`
Bearer(token) == "Bearer " \o token

\* A mutation of AuthenticateHeaders: the header is set without the scheme.
AuthenticateHeadersNoScheme(configHeaders, login) ==
    IF login.raised
    THEN configHeaders
    ELSE [k \in (DOMAIN configHeaders) \cup {"Authorization"} |->
            IF k = "Authorization" THEN login.value["token"].val
            ELSE configHeaders[k]]

\* A mutation of AuthenticateHeaders: the header is set whether login raised
\* or not.
AuthenticateHeadersOnFailure(configHeaders, login) ==
    [k \in (DOMAIN configHeaders) \cup {"Authorization"} |->
        IF k = "Authorization"
        THEN IF login.raised THEN Bearer("undefined") ELSE Bearer(login.value["token"].val)
        ELSE configHeaders[k]]

\* config.headers after authenticate, login(login) having ended as `login`:
\* this.config.headers.Authorization = `Bearer ${data.token}`
AuthenticateHeaders(configHeaders, login) ==
    IF login.raised
    THEN configHeaders
    ELSE [k \in (DOMAIN configHeaders) \cup {"Authorization"} |->
            IF k = "Authorization" THEN Bearer(login.value["token"].val)
            ELSE configHeaders[k]]

\* What authenticate returns: nothing, or what login raised.
AuthenticateResult(login) ==
    IF login.raised
    THEN login
    ELSE Outcome(FALSE, "", {}, EmptyObj, NoResponse, login.events, login.sent)

\* createChirpyApiClient(request, headers): the object the new client's
\* config.headers refers to.  `headers ?? {}` keeps the caller's object, or
\* makes a fresh one for this client.
ConfigHeadersRef(c, headers) == IF headers = "undefined" THEN c ELSE headers

\* ------------------------------------------------------------------------
\* Inputs: callers' arguments and the environment's answers
\* ------------------------------------------------------------------------

\* The object with the fields of record r.
ObjOf(r) == [f \in AllFields |-> IF f \in DOMAIN r THEN r[f] ELSE Absent]

\* CHIRPY_LOGIN and CHIRPY_PASSWORD of playwright.config
ValidLogin == ObjOf([email |-> JStr("user@test.com"), password |-> JStr("secret")])

InvalidLogin ==
    ObjOf([email |-> JStr("notExistingUser123@test.com"), password |-> JStr("invalid")])

Logins == { ValidLogin, InvalidLogin }

ChirpPayloads ==
    { ObjOf([body |-> JStr("Hello, world!"),
             expiration_datetime |-> JStr("2026-01-01T00:00:00.000Z")]),
      ObjOf([body |-> JStr(""), expiration_datetime |-> JStr("never")]) }

ChirpIds == { "id1", "id2" }

\* Per-call headers a caller of rawRequest may pass (none: the empty map).
PerCallHeaders ==
    { NoHeaders, [Authorization |-> "Basic x"], ("X-Api" :> "k2") }

\* The headers object a caller may pass to createChirpyApiClient.
CallerHeaders == ("X-Api" :> "k1")

\* The params a caller of rawRequest may pass.
RawParams ==
    Params(<< Entry("limit", PNum(0)), Entry("sort", PUndefined),
              Entry("mine", PBool(FALSE)) >>)

RawOptions ==
    { Options("undefined", h, NoData) : h \in PerCallHeaders }
    \cup { Options("POST", h, Data(ObjBody(InvalidLogin))) : h \in PerCallHeaders }
    \cup { OptionsWithParams("GET", NoHeaders, NoData, RawParams) }

Statuses == { 200, 201, 401, 500 }

LoginOk(token) ==
    With(WellFormed(ChirpyLoginResponseSchema, "s"), "token", JStr(token))

ErrorBody == ObjOf([error |-> JStr("Incorrect email or password")])

OtherBodies == { ObjBody(ErrorBody), NullBody, NotJsonBody }

\* The objects a server may answer where base is expected: base, base with an
\* undeclared key, base with up to MaxBodyDefects declared fields missing, and
\* base with one declared field of a wrong kind.
ServerObjects(schema, base) ==
    Replaced(schema, base, MaxBodyDefects, Absent)
    \cup Replaced(schema, base, 1, JNum("7"))
    \cup { With(base, "extraField", JStr("x")) }

LoginBodies ==
    { ObjBody(o) : o \in ServerObjects(ChirpyLoginResponseSchema, LoginOk("t1"))
                         \cup { LoginOk("t2") } }
    \cup OtherBodies

ChirpBodies ==
    { ObjBody(o) : o \in ServerObjects(ChirpResponseSchema,
                                       WellFormed(ChirpResponseSchema, "s")) }
    \cup OtherBodies

RawBodies == { ObjBody(LoginOk("t1")), ObjBody(With(ErrorBody, "extraField", JStr("x"))) }
             \cup OtherBodies

\* What request.fetch may do when the server answers with one of bodies.
Net(bodies) ==
    { NetResponse(st, b) : st \in Statuses, b \in bodies } \cup { NetRejected, NetNone }

\* What a wrong field of an input of parse may hold.
DefectVals == { Absent, JNull, JNum("7"), JStr("x"), JBool(TRUE) }

StringBody == [shape |-> "string", obj |-> EmptyObj]

\* The keys and the values of the entries of params, and the params of at
\* most n entries: the keys of an object are distinct.
ParamKeys == { "q", "page", "mine" }

ParamValues ==
    { PUndefined, PStr(""), PStr("x"), PNum(0), PNum(12), PBool(FALSE), PBool(TRUE) }

ParamsUpTo(n) ==
    { Params(es) :
        es \in { e \in UNION { [1..k -> { Entry(key, v) : key \in ParamKeys,
                                                            v \in ParamValues }] :
                                k \in 0..n } :
                    \A i, j \in 1..Len(e) : e[i].key = e[j].key => i = j } }
    \cup { NoParams }

\* The URLs handed to fetchWithConfig: without a query, and with one.
QueryURLs ==
    { URL("https://chirpy", "/api/chirps", q) :
        q \in { << >>, << << "q", "old" >> >>,
                << << "sort", "asc" >>, << "q", "" >> >> } }

ParseInputs(name) ==
    { ObjBody(o) : o \in Variants(SchemaOf(name), WellFormed(SchemaOf(name), "s"),
                                  MaxDefects, DefectVals) }
    \cup { NullBody, StringBody }

\* ------------------------------------------------------------------------
\* State
\* ------------------------------------------------------------------------

Clients == { "c1", "c2" }

\* The headers objects: one made by createChirpyApiClient for each client,
\* and the caller's.
HeaderObjects == Clients \cup { "caller" }

VARIABLES
    handle,   \* per client: the request context newContext gave ("none", "open", "disposed")
    cfg,      \* per client: the headers object config.headers refers to ("none": no client yet)
    heap,     \* per headers object: its header map
    fx,       \* the chirpyApi fixture: where it stands and the steps it completed
    authTok,  \* per client: the token of its latest successful authenticate ("none" if none)
    mapTok,   \* per headers object: the token of the latest successful authenticate on it
    last,     \* the latest call of the client layer, with what it sent and how it ended
    pName,    \* parse specification: the schema
    pIn,      \* parse specification: the input
    pOut,     \* parse specification: what parse gave ("pending" before)
    qUrl,     \* query specification: the url handed to fetchWithConfig
    qParams,  \* query specification: options.params
    qOut      \* query specification: the url requested ("pending" before)

vars ==
    << handle, cfg, heap, fx, authTok, mapTok, last, pName, pIn, pOut,
       qUrl, qParams, qOut >>

clientVars == << handle, cfg, heap, fx, authTok, mapTok, last >>

parseVars == << pName, pIn, pOut >>

queryVars == << qUrl, qParams, qOut >>

\* The variables the client layer leaves alone.
pureVars == << parseVars, queryVars >>

QueryPending == [url |-> URL("", "", << >>), state |-> "pending"]

QueryDone(u) == [url |-> u, state |-> "done"]

NoOutcome == Outcome(FALSE, "", {}, EmptyObj, NoResponse, << >>, << >>)

Pending == [ok |-> FALSE, value |-> EmptyObj, issues |-> {}, state |-> "pending"]

Done(p) == [ok |-> p.ok, value |-> p.value, issues |-> p.issues, state |-> "done"]

\* The record of a call of client c.
Call(op, c, perCall, net, out) ==
    [ op |-> op, client |-> c, perCall |-> perCall, net |-> net, out |-> out,
      hdrsBefore |-> heap[cfg[c]], authBefore |-> authTok[c],
      mapTokBefore |-> mapTok[cfg[c]] ]

\* No call is on record.
NoCall ==
    [ op |-> "none", client |-> "c1", perCall |-> NoHeaders, net |-> NetNone,
      out |-> NoOutcome, hdrsBefore |-> NoHeaders, authBefore |-> "none",
      mapTokBefore |-> "none" ]

InitClient ==
    /\ handle = [c \in Clients |-> "none"]
    /\ cfg = [c \in Clients |-> "none"]
    /\ heap = [o \in HeaderObjects |-> IF o = "caller" THEN CallerHeaders ELSE NoHeaders]
    /\ fx = [pc |-> "idle", steps |-> << >>]
    /\ authTok = [c \in Clients |-> "none"]
    /\ mapTok = [o \in HeaderObjects |-> "none"]
    /\ last = NoCall

\* The parse and the query specification before their inputs are drawn.
InitParseIdle ==
    /\ pName = "ChirpyLoginSchema"
    /\ pIn = NullBody
    /\ pOut = Pending

InitQueryIdle ==
    /\ qUrl = URL("", "", << >>)
    /\ qParams = NoParams
    /\ qOut = QueryPending

Init ==
    /\ InitClient
    /\ InitParseIdle
    /\ InitQueryIdle

\* ------------------------------------------------------------------------
\* Operations
\* ------------------------------------------------------------------------

\* The client the chirpyApi fixture builds.
FxClient == "c1"

\* A caller may call client c: no call is awaited, the client was constructed,
\* and when it is the fixture's the test body is running.
Usable(c) ==
    /\ last = NoCall
    /\ cfg[c] # "none"
    /\ (c = FxClient /\ fx.pc # "idle") => fx.pc = "body"

\* beforeAll of a spec file: newContext, then createChirpyApiClient(request)
\* or createChirpyApiClient(request, headers) with the caller's headers object.
\* A spec file builds its clients itself or takes the fixture's, not both.
TestSetup(c) ==
    \E headers \in { "undefined", "caller" } :
        /\ handle[c] = "none"
        /\ fx.pc = "idle"
        /\ handle' = [handle EXCEPT ![c] = "open"]
        /\ cfg' = [cfg EXCEPT ![c] = ConfigHeadersRef(c, headers)]
        /\ heap' = IF headers = "undefined" THEN [heap EXCEPT ![c] = NoHeaders] ELSE heap
        /\ UNCHANGED << fx, authTok, mapTok, last, pureVars >>

\* client.login(login)
Login(c) ==
    \E login \in Logins, net \in Net(LoginBodies) :
        /\ Usable(c)
        /\ last' = Call("login", c, NoHeaders, net, LoginResult(heap[cfg[c]], login, net))
        /\ UNCHANGED << handle, cfg, heap, fx, authTok, mapTok, pureVars >>

\* What client.authenticate(login) does to the client.
AuthenticateStep(c, login, net) ==
    LET data == LoginResult(heap[cfg[c]], login, net)
    IN  /\ heap' = [heap EXCEPT ![cfg[c]] = AuthenticateHeaders(@, data)]
        /\ last' = Call("authenticate", c, NoHeaders, net, AuthenticateResult(data))
        /\ authTok' = IF data.raised THEN authTok
                      ELSE [authTok EXCEPT ![c] = data.value["token"].val]
        /\ mapTok' = IF data.raised THEN mapTok
                     ELSE [mapTok EXCEPT ![cfg[c]] = data.value["token"].val]

\* client.authenticate(login)
Authenticate(c) ==
    \E login \in Logins, net \in Net(LoginBodies) :
        /\ Usable(c)
        /\ AuthenticateStep(c, login, net)
        /\ UNCHANGED << handle, cfg, fx, pureVars >>

\* client.createChirp(chirp)
CreateChirp(c) ==
    \E chirp \in ChirpPayloads, net \in Net(ChirpBodies) :
        /\ Usable(c)
        /\ last' = Call("createChirp", c, NoHeaders, net,
                        CreateChirpResult(heap[cfg[c]], chirp, net))
        /\ UNCHANGED << handle, cfg, heap, fx, authTok, mapTok, pureVars >>

\* client.getChirp(chirpId)
GetChirp(c) ==
    \E chirpId \in ChirpIds, net \in Net(ChirpBodies) :
        /\ Usable(c)
        /\ last' = Call("getChirp", c, NoHeaders, net,
                        GetChirpResult(heap[cfg[c]], chirpId, net))
        /\ UNCHANGED << handle, cfg, heap, fx, authTok, mapTok, pureVars >>

\* A mutation of RawRequest: the headers of the call are kept in the
\* client's header map.
RawRequestKeepsHeaders(c) ==
    \E path \in { loginPath, chirpsPath }, options \in RawOptions, net \in Net(RawBodies) :
        /\ Usable(c)
        /\ last' = Call("rawRequest", c, options.headers, net,
                        RawRequestResult(heap[cfg[c]], path, options, net))
        /\ heap' = [heap EXCEPT ![cfg[c]] = Spread(@, options.headers)]
        /\ UNCHANGED << handle, cfg, fx, authTok, mapTok, pureVars >>

\* client.rawRequest(path, options)
RawRequest(c) ==
    \E path \in { loginPath, chirpsPath }, options \in RawOptions, net \in Net(RawBodies) :
        /\ Usable(c)
        /\ last' = Call("rawRequest", c, options.headers, net,
                        RawRequestResult(heap[cfg[c]], path, options, net))
        /\ UNCHANGED << handle, cfg, heap, fx, authTok, mapTok, pureVars >>

\* The body of the test "POST api/login invalid credentials" once rawRequest
\* ended as `response`: the status is expected to be 401, the body is parsed
\* with the ChirpyErrorSchema the test imports (@schemas/chirpy-error.schema)
\* and its error is expected to be the server's message.
InvalidCredentialsResult(response) ==
    LET data == Parse(SchemasChirpyErrorSchema, response.response.data)
    IN  IF response.raised
        THEN response
        ELSE IF response.response.status # 401
        THEN Raise("status mismatch", {},
                   response.events \o << "expect status" >>, response.sent)
        ELSE IF ~data.ok
        THEN Raise("schema mismatch", data.issues,
                   response.events \o << "expect status", "parse" >>, response.sent)
        ELSE IF data.value["error"] # JStr("Incorrect email or password")
        THEN Raise("value mismatch", {},
                   response.events \o << "expect status", "parse", "expect error" >>,
                   response.sent)
        ELSE Outcome(FALSE, "", {}, data.value, NoResponse,
                     response.events \o << "expect status", "parse", "expect error" >>,
                     response.sent)

\* The test "POST api/login invalid credentials" of chirpy-login.spec.ts.
InvalidCredentialsTest(c) ==
    \E net \in Net(RawBodies) :
        /\ Usable(c)
        /\ c # FxClient \/ fx.pc = "idle"
        /\ last' = Call("invalid credentials test", c, NoHeaders, net,
                        InvalidCredentialsResult(
                            RawRequestResult(heap[cfg[c]], loginPath,
                                Options("POST", NoHeaders, Data(ObjBody(InvalidLogin))),
                                net)))
        /\ UNCHANGED << handle, cfg, heap, fx, authTok, mapTok, pureVars >>

\* ------------------------------------------------------------------------
\* The chirpyApi fixture
\* ------------------------------------------------------------------------

FxAt(pc, step) == [pc |-> pc, steps |-> Append(fx.steps, step)]

\* const request = await playwright.request.newContext()
FxNewContext ==
    /\ fx.pc = "idle"
    /\ \A c \in Clients : handle[c] = "none"
    /\ handle' = [handle EXCEPT ![FxClient] = "open"]
    /\ fx' = FxAt("acquired", "newContext")
    /\ UNCHANGED << cfg, heap, authTok, mapTok, last, pureVars >>

\* const chirpyApi = createChirpyApiClient(request)
FxCreateClient ==
    /\ fx.pc = "acquired"
    /\ cfg' = [cfg EXCEPT ![FxClient] = ConfigHeadersRef(FxClient, "undefined")]
    /\ heap' = [heap EXCEPT ![FxClient] = NoHeaders]
    /\ fx' = FxAt("constructed", "createChirpyApiClient")
    /\ UNCHANGED << handle, authTok, mapTok, last, pureVars >>

\* A mutation of FxAuthenticate: the client is handed to the test body whether
\* authenticate raised or not.
FxAuthenticateAlwaysUse ==
    \E net \in Net(LoginBodies) :
        /\ fx.pc = "constructed"
        /\ last = NoCall
        /\ AuthenticateStep(FxClient, ValidLogin, net)
        /\ fx' = [pc |-> "body", steps |-> fx.steps \o << "authenticate", "use" >>]
        /\ UNCHANGED << handle, cfg, pureVars >>

\* await chirpyApi.authenticate({email: login, password}); when it raises the
\* fixture function ends there, otherwise use(chirpyApi) hands the client to
\* the test body.
FxAuthenticate ==
    \E net \in Net(LoginBodies) :
        /\ fx.pc = "constructed"
        /\ last = NoCall
        /\ AuthenticateStep(FxClient, ValidLogin, net)
        /\ fx' = IF LoginResult(heap[cfg[FxClient]], ValidLogin, net).raised
                 THEN FxAt("setupFailed", "authenticate raised")
                 ELSE [pc |-> "body",
                       steps |-> fx.steps \o << "authenticate", "use" >>]
        /\ UNCHANGED << handle, cfg, pureVars >>

\* The test body ends, passed or failed, and use(chirpyApi) resolves.
FxBodyEnd ==
    \E result \in { "body passed", "body failed" } :
        /\ fx.pc = "body"
        /\ fx' = FxAt("afterUse", result)
        /\ UNCHANGED << handle, cfg, heap, authTok, mapTok, last, pureVars >>

\* The fixture function returns: nothing follows `await use(chirpyApi)`.
FxReturn ==
    /\ fx.pc = "afterUse"
    /\ fx' = FxAt("done", "return")
    /\ UNCHANGED << handle, cfg, heap, authTok, mapTok, last, pureVars >>

\* The awaited call has settled and its caller goes on with what it got.
Resume ==
    /\ last # NoCall
    /\ last' = NoCall
    /\ UNCHANGED << handle, cfg, heap, fx, authTok, mapTok, pureVars >>

Next ==
    \/ \E c \in Clients : TestSetup(c)
    \/ \E c \in Clients : Login(c)
    \/ \E c \in Clients : Authenticate(c)
    \/ \E c \in Clients : CreateChirp(c)
    \/ \E c \in Clients : GetChirp(c)
    \/ \E c \in Clients : RawRequest(c)
    \/ \E c \in Clients : InvalidCredentialsTest(c)
    \/ FxNewContext
    \/ FxCreateClient
    \/ FxAuthenticate
    \/ FxBodyEnd
    \/ FxReturn
    \/ Resume

Spec == Init /\ [][Next]_vars

\* ------------------------------------------------------------------------
\* The parse specification: parse applied to bounded inputs
\* ------------------------------------------------------------------------

InitParse ==
    /\ InitClient
    /\ InitQueryIdle
    /\ pName \in SchemaNames
    /\ pIn \in ParseInputs(pName)
    /\ pOut = Pending

ParseStep ==
    /\ pOut.state = "pending"
    /\ pOut' = Done(Parse(SchemaOf(pName), pIn))
    /\ UNCHANGED << pName, pIn, clientVars, queryVars >>

NextParse == ParseStep

SpecParse == InitParse /\ [][NextParse]_vars

\* ------------------------------------------------------------------------
\* The query specification: the url fetchWithConfig requests, for bounded
\* urls and params
\* ------------------------------------------------------------------------

InitQuery ==
    /\ InitClient
    /\ InitParseIdle
    /\ qUrl \in QueryURLs
    /\ qParams \in ParamsUpTo(MaxParams)
    /\ qOut = QueryPending

\* fetchWithConfig builds the url it requests.
QueryStep ==
    /\ qOut.state = "pending"
    /\ qOut' = QueryDone(AppendParams(qUrl, qParams))
    /\ UNCHANGED << qUrl, qParams, clientVars, parseVars >>

NextQuery == QueryStep

SpecQuery == InitQuery /\ [][NextQuery]_vars

\* ------------------------------------------------------------------------
\* Properties
\* ------------------------------------------------------------------------

ValidatedOps == { "login", "createChirp", "getChirp" }

\* The status and the response schema the specification gives each validated
\* operation.
StatedStatus(op) == IF op = "createChirp" THEN 201 ELSE 200

StatedSchema(op) ==
    IF op = "login" THEN ChirpyLoginResponseSchema ELSE ChirpResponseSchema

\* Step e is among the steps of the call on record.
Took(e) == \E i \in 1..Len(last.out.events) : last.out.events[i] = e

\* A response arrived, and its body was JSON text.
GotResponse == last.net.kind = "response"

GotJson == GotResponse /\ last.net.body.shape # "notjson"

\* C1 as stated: whenever the response of login, createChirp or getChirp has
\* another status than the expected one, the operation fails with a status
\* mismatch and parse is not invoked on the body.
C1_StatusGatesEveryResponse ==
    (last.op \in ValidatedOps /\ GotResponse /\ last.net.status # StatedStatus(last.op))
        => /\ last.out.raised
           /\ last.out.error = "status mismatch"
           /\ ~Took("parse")

\* C1, amended: whenever the response of login, createChirp or getChirp has a
\* JSON body and another status than the expected one, the operation fails
\* with a status mismatch; with any body of such a response parse is never
\* invoked; and whenever parse is invoked, the status assertion was made
\* before it.
C1_StatusGatesJsonResponse ==
    last.op \in ValidatedOps =>
        /\ (GotJson /\ last.net.status # StatedStatus(last.op))
              => (last.out.raised /\ last.out.error = "status mismatch")
        /\ (GotResponse /\ last.net.status # StatedStatus(last.op)) => ~Took("parse")
        /\ \A i \in 1..Len(last.out.events) :
              last.out.events[i] = "parse"
                  => \E j \in 1..(i - 1) : last.out.events[j] = "expect status"

\* C1, witness: login got a well-formed login body with status 401 and failed
\* with a status mismatch.
C1_Witness ==
    /\ last.op = "login"
    /\ last.net = NetResponse(401, ObjBody(LoginOk("t1")))
    /\ last.out.raised
    /\ last.out.error = "status mismatch"

\* C2: whenever login, createChirp or getChirp returns a value, the response
\* had exactly the expected status and the value holds every declared field
\* of the response schema at its declared kind, as the body gave it; on a
\* transport failure, another status or a body that does not fit the schema
\* the operation raises and returns no value.
C2_ReturnsOnlyValidated ==
    last.op \in ValidatedOps =>
        LET schema == StatedSchema(last.op)
            fits == /\ last.net.body.shape = "object"
                    /\ \A f \in DOMAIN schema : last.net.body.obj[f].kind = schema[f]
        IN  /\ ~last.out.raised
                => /\ GotResponse
                   /\ last.net.status = StatedStatus(last.op)
                   /\ \A f \in DOMAIN schema :
                         /\ last.out.value[f].kind = schema[f]
                         /\ last.out.value[f] = last.net.body.obj[f]
            /\ (~GotResponse \/ last.net.status # StatedStatus(last.op) \/ ~fits)
                => (last.out.raised /\ last.out.value = EmptyObj)

\* C2, witness: createChirp returned a chirp.
C2_Witness ==
    /\ last.op = "createChirp"
    /\ ~last.out.raised
    /\ last.out.value["id"].kind = "string"

\* Every request of the call on record carried header key with value.
SentHeader(key, value) ==
    /\ Len(last.out.sent) > 0
    /\ \A i \in 1..Len(last.out.sent) :
          /\ key \in DOMAIN last.out.sent[i].headers
          /\ last.out.sent[i].headers[key] = value

\* C3 as stated: once authenticate succeeded on a client, every later call
\* through that client is sent with Authorization: Bearer <the token of that
\* login response>, whatever the call's options.
C3_BearerOnEveryCall ==
    (last.op # "none" /\ last.authBefore # "none")
        => SentHeader("Authorization", "Bearer " \o last.authBefore)

\* C3, amended: once authenticate succeeded on a client, every later call
\* through that client whose options carry no Authorization header is sent
\* with Authorization: Bearer <token>, the token being that of the latest
\* successful authenticate on the headers object of the client (by this client
\* or by another client constructed over the same object); a call whose
\* options carry an Authorization header is sent with that one.
C3_BearerUnlessOverridden ==
    (last.op # "none" /\ last.authBefore # "none")
        => IF "Authorization" \in DOMAIN last.perCall
           THEN SentHeader("Authorization", last.perCall["Authorization"])
           ELSE /\ last.mapTokBefore # "none"
                /\ SentHeader("Authorization", "Bearer " \o last.mapTokBefore)

\* C3, witness: a createChirp of a client that authenticated with token t1
\* was sent with Bearer t1.
C3_Witness ==
    /\ last.op = "createChirp"
    /\ last.authBefore = "t1"
    /\ SentHeader("Authorization", "Bearer t1")

\* C4 as stated: rawRequest returns the uniform response for a response of
\* any status, and never raises on one.
C4_RawReturnsEveryResponse ==
    (last.op = "rawRequest" /\ GotResponse)
        => /\ ~last.out.raised
           /\ last.out.response.status = last.net.status
           /\ last.out.response.data = last.net.body

\* C4, amended: rawRequest asserts no status and validates nothing: for a
\* response of any status whose body is JSON text it returns the uniform
\* response with the status, status text, body and headers received.
C4_RawReturnsJsonResponse ==
    last.op = "rawRequest" =>
        /\ ~Took("expect status")
        /\ ~Took("parse")
        /\ GotJson
              => /\ ~last.out.raised
                 /\ last.out.response.status = last.net.status
                 /\ last.out.response.statusText = StatusText(last.net.status)
                 /\ last.out.response.data = last.net.body
                 /\ last.out.response.headers = ResponseHeaders(last.net.body)

\* C4, witness: rawRequest returned a response of status 500 whose body fits
\* no schema.
C4_Witness ==
    /\ last.op = "rawRequest"
    /\ last.net = NetResponse(500, NullBody)
    /\ ~last.out.raised
    /\ last.out.response.status = 500

\* C5: in the invalid-credentials test, the body {error: "Incorrect email or
\* password"} of the 401 response is accepted by the ChirpyErrorSchema the
\* test imports, giving a value with that error.
C5_ErrorBodyAccepted ==
    (/\ last.op = "invalid credentials test"
     /\ last.net = NetResponse(401, ObjBody(ErrorBody)))
        => /\ ~last.out.raised
           /\ last.out.value["error"] = JStr("Incorrect email or password")

C8_HandleReleased ==
    fx.pc \in { "done", "setupFailed" } => handle[FxClient] = "disposed"

\* C9: the test body gets the client only after newContext,
\* createChirpyApiClient and a successful authenticate, in that order; when
\* authenticate raises the body is never run; and the client the body has
\* carries the Authorization header of that authenticate.
C9_BodyAfterSetup ==
    /\ (\E i \in 1..Len(fx.steps) : fx.steps[i] = "use")
          => /\ Len(fx.steps) >= 4
             /\ SubSeq(fx.steps, 1, 4)
                    = << "newContext", "createChirpyApiClient", "authenticate", "use" >>
             /\ handle[FxClient] = "open"
             /\ cfg[FxClient] # "none"
             /\ authTok[FxClient] # "none"
    /\ fx.pc = "setupFailed"
          => /\ authTok[FxClient] = "none"
             /\ \A i \in 1..Len(fx.steps) : fx.steps[i] # "use"
    /\ fx.pc = "body"
          => /\ "Authorization" \in DOMAIN heap[cfg[FxClient]]
             /\ heap[cfg[FxClient]]["Authorization"] = "Bearer " \o authTok[FxClient]

\* C9, witness: the test body is running and has called createChirp on the
\* fixture's client, sent with the Authorization header.
C9_Witness ==
    /\ fx.pc = "body"
    /\ last.op = "createChirp"
    /\ last.client = FxClient
    /\ SentHeader("Authorization", "Bearer t1")

\* C10: the headers of every request are the union of the client's headers
\* and the call's: a key of both has the call's value, a key of one has that
\* value, and there is no other key.
C10_HeadersMerged ==
    last.op # "none" =>
        /\ Len(last.out.sent) > 0
        /\ \A i \in 1..Len(last.out.sent) :
              LET sent == last.out.sent[i].headers
              IN  /\ DOMAIN sent = (DOMAIN last.hdrsBefore) \cup (DOMAIN last.perCall)
                  /\ \A k \in DOMAIN sent :
                        sent[k] = IF k \in DOMAIN last.perCall
                                  THEN last.perCall[k]
                                  ELSE last.hdrsBefore[k]

\* C10, witness: a rawRequest whose options and client both hold X-Api and
\* whose client alone holds Authorization.
C10_Witness ==
    /\ last.op = "rawRequest"
    /\ last.perCall = ("X-Api" :> "k2")
    /\ DOMAIN last.hdrsBefore = { "X-Api", "Authorization" }
    /\ last.hdrsBefore["X-Api"] = "k1"
    /\ Len(last.out.sent) = 1
    /\ last.out.sent[1].headers["X-Api"] = "k2"
    /\ last.out.sent[1].headers["Authorization"] = last.hdrsBefore["Authorization"]

\* The call on record raised, returned nothing, and handed exactly one request
\* to request.fetch without reading a body.
RaisedAfterOneRequest ==
    /\ last.out.raised
    /\ Len(last.out.sent) = 1
    /\ last.out.events = << "fetch" >>
    /\ last.out.response = NoResponse
    /\ last.out.value = EmptyObj

\* C11 as stated: whenever the transport obtains no response (request.fetch
\* rejects, or gives none), the call raises 'No response received', no second
\* request is issued and no uniform response is returned.
C11_NoResponseReceived ==
    (last.op # "none" /\ ~GotResponse)
        => /\ RaisedAfterOneRequest
           /\ last.out.error = "No response received"

\* C11, amended: whenever request.fetch resolves without a response the call
\* raises 'No response received'; whenever request.fetch rejects (a
\* transport-level failure) the call raises that rejection; in both cases
\* exactly one request was issued, none is retried and no uniform response is
\* returned.
C11_NoResponseRaisesOnce ==
    (last.op # "none" /\ ~GotResponse)
        => /\ RaisedAfterOneRequest
           /\ last.net.kind = "none" => last.out.error = "No response received"
           /\ last.net.kind = "rejected" => last.out.error = "fetch rejected"

\* C11, witness: a rawRequest whose request.fetch gave no response raised
\* 'No response received' after its one request.
C11_Witness ==
    /\ last.op = "rawRequest"
    /\ last.net = NetNone
    /\ last.out.raised
    /\ last.out.error = "No response received"
    /\ Len(last.out.sent) = 1

\* C12: the header map of a client is owned by that client alone: for any two
\* distinct clients built by createChirpyApiClient, with or without a headers
\* argument, an authenticate on one leaves the header map of the other, and
\* so the headers the other sends, as they were.
C12_HeadersExclusive ==
    [][ \A c \in Clients :
           ( /\ last.op = "none"
             /\ last'.op = "authenticate"
             /\ last'.client # c
             /\ cfg[c] # "none" )
               => heap'[cfg'[c]] = heap[cfg[c]] ]_vars

\* The operations of ChirpyApiClient.
ClientOps == { "login", "authenticate", "createChirp", "getChirp", "rawRequest" }

\* How often step e is among the steps of the call on record.
TimesTook(e) == Cardinality({ i \in 1..Len(last.out.events) : last.out.events[i] = e })

ExpectedText(v) ==
    CASE v = PBool(FALSE) -> "false"
      [] v = PBool(TRUE) -> "true"
      [] v = PNum(0) -> "0"
      [] v = PNum(12) -> "12"
      [] OTHER -> v.s

\* C14: the url fetchWithConfig requests has the origin and path of the url
\* it was given and a query string that is the one already there, kept in
\* order, followed by exactly one key=value pair for every entry of params
\* whose value is not undefined (false, 0 and the empty string included, each
\* as its text) and by nothing else: nothing is appended for an entry whose
\* value is undefined, nor when params is absent.
C14_DefinedParamsAppended ==
    qOut.state = "done" =>
        LET old == qUrl.search
            new == qOut.url.search
            es == qParams.entries
            defined == { i \in 1..Len(es) : es[i].value # PUndefined }
            added == (Len(old) + 1)..Len(new)
        IN  /\ qOut.url.origin = qUrl.origin
            /\ qOut.url.pathname = qUrl.pathname
            /\ Len(new) = Len(old) + Cardinality(defined)
            /\ SubSeq(new, 1, Len(old)) = old
            /\ \A i \in defined :
                  /\ Cardinality({ j \in added : new[j][1] = es[i].key }) = 1
                  /\ \A j \in added :
                        new[j][1] = es[i].key => new[j][2] = ExpectedText(es[i].value)
            /\ \A j \in added : \E i \in defined : new[j][1] = es[i].key

\* C14, witness: a url with a query q=old was given params with q = false and
\* page = undefined: q=false was appended after q=old and nothing for page.
C14_Witness ==
    /\ qOut.state = "done"
    /\ qUrl.search = << << "q", "old" >> >>
    /\ qParams = Params(<< Entry("q", PBool(FALSE)), Entry("page", PUndefined) >>)
    /\ qOut.url.search = << << "q", "old" >>, << "q", "false" >> >>

\* The header map of the client of the call on record.
HeadersNow == heap[cfg[last.client]]

\* C15: whenever authenticate fails (request.fetch gives no response, the
\* login status is not 200, or the login body does not fit the schema) it
\* raises and the header map of the client is exactly what it was before the
\* call: no Authorization header is added, and one set by an earlier
\* authenticate keeps its token.
C15_FailedAuthenticateKeepsHeaders ==
    last.op = "authenticate" =>
        LET schema == ChirpyLoginResponseSchema
            fits == /\ last.net.body.shape = "object"
                    /\ \A f \in DOMAIN schema : last.net.body.obj[f].kind = schema[f]
            fails == ~GotResponse \/ last.net.status # 200 \/ ~fits
        IN  /\ fails => last.out.raised
            /\ last.out.raised
                  => /\ HeadersNow = last.hdrsBefore
                     /\ "Authorization" \in DOMAIN HeadersNow
                            <=> "Authorization" \in DOMAIN last.hdrsBefore
                     /\ authTok[last.client] = last.authBefore
                     /\ mapTok[cfg[last.client]] = last.mapTokBefore

\* C15, witness: a client that had authenticated with token t1 called
\* authenticate again, the login answered 401, and the header map still holds
\* Bearer t1.
C15_Witness ==
    /\ last.op = "authenticate"
    /\ last.authBefore = "t1"
    /\ last.net = NetResponse(401, ObjBody(ErrorBody))
    /\ last.out.raised
    /\ last.out.error = "status mismatch"
    /\ HeadersNow["Authorization"] = "Bearer t1"

\* The operations that are to leave the configuration of the client alone.
FrameOps == { "login", "createChirp", "getChirp", "rawRequest" }

\* C16: no call of login, createChirp, getChirp or rawRequest (each through
\* makeRequest) changes a header map or the headers object a client refers
\* to, and each is sent to the configured base URL, so the headers passed
\* with one call are in no later one; a header map changes only by an
\* authenticate that succeeds, only the map of the client it was called on,
\* and only at the key Authorization.
C16_OnlyAuthenticateChangesHeaders ==
    [][ /\ (last.op = "none" /\ last'.op \in FrameOps)
              => /\ heap' = heap
                 /\ cfg' = cfg
                 /\ \A i \in 1..Len(last'.out.sent) :
                       last'.out.sent[i].url.origin = BASE_URL
        /\ \A o \in HeaderObjects :
              heap'[o] # heap[o]
                  => /\ last.op = "none"
                     /\ last'.op = "authenticate"
                     /\ ~last'.out.raised
                     /\ o = cfg[last'.client]
                     /\ DOMAIN heap'[o] = (DOMAIN heap[o]) \cup { "Authorization" }
                     /\ \A k \in (DOMAIN heap[o]) \ { "Authorization" } :
                           heap'[o][k] = heap[o][k] ]_vars

\* C16, witness: a rawRequest passed X-Api: k2 and Authorization-free
\* headers to a client whose map holds X-Api: k1; the request carried k2 and
\* the map still holds k1.
C16_Witness ==
    /\ last.op = "rawRequest"
    /\ last.perCall = ("X-Api" :> "k2")
    /\ "X-Api" \in DOMAIN last.hdrsBefore
    /\ last.out.sent[1].headers["X-Api"] = "k2"
    /\ HeadersNow = last.hdrsBefore
    /\ HeadersNow["X-Api"] = "k1"

====
